---- MODULE Spec2Model ----
\* Bonafide help desk: the Telegram verification dialogue (TgBot.py) and the
\* administrator console (web.py) over the shared Firebase store.
\* Texts are sequences of one-character strings, so that strip(), upper() and
\* the digit normalisation are computed character by character.
EXTENDS Integers, Sequences, FiniteSets, TLC

\* ---------------------------------------------------------------- bounds
\* keys push() generates, and dialogues started, in one run
MaxApps == 2
MaxSessions == 2

\* ---------------------------------------------------------------- texts
Whitespace == {" ", "\t", "\n"}

LowerLetters == <<"a","b","c","d","e","f","g","h","i","j","k","l","m",
                  "n","o","p","q","r","s","t","u","v","w","x","y","z">>
UpperLetters == <<"A","B","C","D","E","F","G","H","I","J","K","L","M",
                  "N","O","P","Q","R","S","T","U","V","W","X","Y","Z">>
AsciiDigits == <<"0","1","2","3","4","5","6","7","8","9">>
\* The fullwidth digits U+FF10..U+FF19, one token per character.
FullwidthDigits == <<"fw0","fw1","fw2","fw3","fw4","fw5","fw6","fw7","fw8","fw9">>

Range(s) == {s[i] : i \in 1..Len(s)}

IndexOf(s, c) == CHOOSE i \in 1..Len(s) : s[i] = c

\* str.strip(): leading whitespace
RECURSIVE LStrip(_)
LStrip(s) ==
    IF s # <<>> /\ Head(s) \in Whitespace THEN LStrip(Tail(s)) ELSE s

\* str.strip(): trailing whitespace
RECURSIVE RStrip(_)
RStrip(s) ==
    IF s # <<>> /\ s[Len(s)] \in Whitespace
    THEN RStrip(SubSeq(s, 1, Len(s) - 1))
    ELSE s

Strip(s) == RStrip(LStrip(s))

LowerChars == Range(LowerLetters)

FullwidthChars == Range(FullwidthDigits)

DigitChars == Range(AsciiDigits) \cup Range(FullwidthDigits)

\* str.upper() on one lower-case letter
UpperTable ==
    [a |-> "A", b |-> "B", c |-> "C", d |-> "D", e |-> "E", f |-> "F", g |-> "G",
     h |-> "H", i |-> "I", j |-> "J", k |-> "K", l |-> "L", m |-> "M", n |-> "N",
     o |-> "O", p |-> "P", q |-> "Q", r |-> "R", s |-> "S", t |-> "T", u |-> "U",
     v |-> "V", w |-> "W", x |-> "X", y |-> "Y", z |-> "Z"]

UpperChar(c) == IF c \in LowerChars THEN UpperTable[c] ELSE c

\* str.upper()
Upper(s) == [i \in 1..Len(s) |-> UpperChar(s[i])]

\* ch.isascii()
IsAscii(c) == c \notin FullwidthChars

\* unicodedata.digit(ch), as str(d); a character without a digit value stays
DigitOrSame(c) ==
    IF c \in FullwidthChars THEN AsciiDigits[IndexOf(FullwidthDigits, c)]
    ELSE c

\* str.isdigit(): non-empty and every character a digit
IsDigit(s) ==
    /\ s # <<>>
    /\ \A i \in 1..Len(s) : s[i] \in DigitChars

PrnLen == 8

\* get_prn's normalisation: strip, then map unicode digits when a non-ASCII
\* character is present
NormalizePrn(raw) ==
    LET prn == Strip(raw)
        prn_ascii == SelectSeq(prn, IsAscii)
    IN  IF prn_ascii # prn
        THEN [i \in 1..Len(prn) |-> DigitOrSame(prn[i])]
        ELSE prn

\* a validation that lets every text through
WellFormedPrnAny(prn) == TRUE

\* the validation "not prn.isdigit() or len(prn) != 8", negated
WellFormedPrn(prn) == IsDigit(prn) /\ Len(prn) = PrnLen

\* ---------------------------------------------------------------- directory
\* The "Students" namespace: identifier -> record. Read-only to both programs.
PrnJohn == <<"1","2","3","4","5","6","7","8">>
PrnJane == <<"8","7","6","5","4","3","2","1">>
PrnAbsent == <<"1","1","1","1","1","1","1","1">>
NameJohn == <<"J","o","h","n"," ","S","m","i","t","h">>
NameJane == <<"J","a","n","e"," ","D","o","e">>
PhoneJohn == <<"9","0","0","0","0","0","0","0","0","0">>
PhoneJane == <<"9","8","7","6","5","4","3","2","1","0">>

Students ==
    (PrnJohn :> [name |-> NameJohn, phone |-> PhoneJohn, batch |-> "2024-28"]) @@
    (PrnJane :> [name |-> NameJane, phone |-> PhoneJane \o <<" ">>, batch |-> "2023-27"])

\* ---------------------------------------------------------------- inputs
Users == {"u1", "u2"}

PrnInputs ==
    { PrnJohn,
      <<" ">> \o PrnJohn \o <<"\n">>,
      <<"fw8","fw7","fw6","fw5","fw4","fw3","fw2","fw1">>,
      PrnAbsent,
      <<"fw1","1","1","1","1","1","1","1", " ">>,
      <<"1","2","3","4","5","6","7">>,
      <<"1","2","3","4","a","b","c","d">>,
      <<"fw1","2","3","4","5","6","7","x">> }

NameInputs ==
    { NameJohn,
      <<" ","j","o","h","n"," ","s","m","i","t","h"," ">>,
      <<"J","A","N","E"," ","D","O","E">>,
      <<" "," ","j","a","n","e"," ","d","o","e"," ">> }

PhoneInputs ==
    { PhoneJohn,
      <<" ">> \o PhoneJohn,
      PhoneJane,
      <<"0">> \o PhoneJohn }

\* Any text can be sent in any state of the dialogue.
TextInputs == PrnInputs \cup NameInputs \cup PhoneInputs

\* Readings of the console's clock.
Timestamps == {"T1", "T2"}

\* Dates of the messages that carry the confirmation buttons; no callback
\* branches on the date.
Dates == {"T1"}

\* ---------------------------------------------------------------- states
\* GET_PRN, GET_NAME, GET_PHONE, CONFIRM = range(4); ConversationHandler.END
GET_PRN == 0
GET_NAME == 1
GET_PHONE == 2
CONFIRM == 3
END == -1

\* Python's None where a dictionary is expected, and where a text is
None == [none |-> TRUE]

NoneText == <<"None">>

\* the empty dictionary
NoData == [k \in {} |-> None]

\* dict.get(key, default)
Get(d, k, default) == IF k \in DOMAIN d THEN d[k] ELSE default

\* a dictionary without the key k
Without(d, k) == [x \in DOMAIN d \ {k} |-> d[x]]

\* d[k] = v
Put(d, k, v) == [x \in DOMAIN d \cup {k} |-> IF x = k THEN v ELSE d[x]]

VARIABLES
    conv,        \* ConversationHandler's state per user (per_user=True)
    user_data,   \* context.user_data per user
    apps,        \* the "bonafide_applications" namespace: key -> record
    pushed,      \* number of keys push() has generated
    out,         \* the reply or response to the last update or request
    sessions,    \* history: dialogues started so far
    creates,     \* history: invocations of push().set() in the user's current dialogue
    origin,      \* history: keys written by confirm_submission
    restated,    \* history: the last step was an update to the status already stored
    req,         \* the console's requests in flight, one per worker thread
    typed        \* history: the values the callbacks accepted in the user's live dialogue

vars == <<conv, user_data, apps, pushed, out, sessions, creates, origin, restated, req,
          typed>>

\* the threads of the console's server (app.run serves requests concurrently)
Workers == {"w1", "w2"}

\* a worker that has taken no request
Idle == [pc |-> "idle"]

Reply(to, kind, data) == [to |-> to, kind |-> kind, data |-> data]

Init ==
    /\ conv = [u \in Users |-> END]
    /\ user_data = [u \in Users |-> NoData]
    /\ apps = NoData
    /\ pushed = 0
    /\ out = Reply("nobody", "none", NoData)
    /\ sessions = 0
    /\ creates = [u \in Users |-> 0]
    /\ origin = {}
    /\ restated = FALSE
    /\ req = [w \in Workers |-> Idle]
    /\ typed = [u \in Users |-> NoData]

\* ---------------------------------------------------------------- dispatch
\* a dispatch whose fallbacks are not consulted once the buttons of the
\* confirmation are shown
HandlerCancelLate(st, ev) ==
    IF st = END
    THEN IF ev = "start_bonafide_flow" THEN "start_bonafide_flow" ELSE "none"
    ELSE CASE st = GET_PRN /\ ev = "text" -> "get_prn"
           [] st = GET_NAME /\ ev = "text" -> "get_name"
           [] st = GET_PHONE /\ ev = "text" -> "get_phone"
           [] st = CONFIRM /\ ev \in {"confirm_yes", "confirm_no"} -> "confirm_submission"
           [] st # CONFIRM /\ ev = "/cancel" -> "cancel"
           [] OTHER -> "none"

\* a dispatch whose states register get_phone for GET_NAME as well
HandlerSkipName(st, ev) ==
    IF st = END
    THEN IF ev = "start_bonafide_flow" THEN "start_bonafide_flow" ELSE "none"
    ELSE CASE st = GET_PRN /\ ev = "text" -> "get_prn"
           [] st \in {GET_NAME, GET_PHONE} /\ ev = "text" -> "get_phone"
           [] st = CONFIRM /\ ev \in {"confirm_yes", "confirm_no"} -> "confirm_submission"
           [] ev = "/cancel" -> "cancel"
           [] OTHER -> "none"

\* a dispatch that keeps the buttons of the confirmation alive after the end
\* of the dialogue
HandlerStaleButtons(st, ev) ==
    IF st = END
    THEN CASE ev = "start_bonafide_flow" -> "start_bonafide_flow"
           [] ev \in {"confirm_yes", "confirm_no"} -> "confirm_submission"
           [] OTHER -> "none"
    ELSE CASE st = GET_PRN /\ ev = "text" -> "get_prn"
           [] st = GET_NAME /\ ev = "text" -> "get_name"
           [] st = GET_PHONE /\ ev = "text" -> "get_phone"
           [] st = CONFIRM /\ ev \in {"confirm_yes", "confirm_no"} -> "confirm_submission"
           [] ev = "/cancel" -> "cancel"
           [] OTHER -> "none"

\* the dispatch of a handler built with allow_reentry=True
HandlerReentry(st, ev) ==
    IF ev = "start_bonafide_flow"
    THEN "start_bonafide_flow"
    ELSE IF st = END THEN "none"
    ELSE CASE st = GET_PRN /\ ev = "text" -> "get_prn"
           [] st = GET_NAME /\ ev = "text" -> "get_name"
           [] st = GET_PHONE /\ ev = "text" -> "get_phone"
           [] st = CONFIRM /\ ev \in {"confirm_yes", "confirm_no"} -> "confirm_submission"
           [] ev = "/cancel" -> "cancel"
           [] OTHER -> "none"

\* Which callback of conv_handler takes an update of a user whose conversation
\* is in state st. Entry points are tried only outside a conversation
\* (allow_reentry=False); inside one, the state's handlers, then the fallbacks.
Handler(st, ev) ==
    IF st = END
    THEN IF ev = "start_bonafide_flow" THEN "start_bonafide_flow" ELSE "none"
    ELSE CASE st = GET_PRN /\ ev = "text" -> "get_prn"
           [] st = GET_NAME /\ ev = "text" -> "get_name"
           [] st = GET_PHONE /\ ev = "text" -> "get_phone"
           [] st = CONFIRM /\ ev \in {"confirm_yes", "confirm_no"} -> "confirm_submission"
           [] ev = "/cancel" -> "cancel"
           [] OTHER -> "none"

Events == {"start_bonafide_flow", "text", "confirm_yes", "confirm_no", "/cancel"}

BotFrame == restated' = FALSE /\ UNCHANGED <<apps, pushed, origin, req>>

\* ---------------------------------------------------------------- bot handlers
\* an entry that resumes at the confirmation when user_data still holds the
\* fields of an earlier dialogue
StartBonafideFlowResume(u) ==
    /\ Handler(conv[u], "start_bonafide_flow") = "start_bonafide_flow"
    /\ sessions < MaxSessions
    /\ sessions' = sessions + 1
    /\ user_data' = [user_data EXCEPT ![u] = Put(@, "chat_id", u)]
    /\ conv' = [conv EXCEPT ![u] = IF "phone" \in DOMAIN user_data[u] THEN CONFIRM ELSE GET_PRN]
    /\ creates' = [creates EXCEPT ![u] = 0]
    /\ typed' = [typed EXCEPT ![u] = NoData]
    /\ out' = Reply(u, "ask_prn", NoData)
    /\ BotFrame

StartBonafideFlow(u) ==
    /\ Handler(conv[u], "start_bonafide_flow") = "start_bonafide_flow"
    /\ sessions < MaxSessions
    /\ sessions' = sessions + 1
    /\ user_data' = [user_data EXCEPT ![u] = Put(@, "chat_id", u)]
    /\ conv' = [conv EXCEPT ![u] = GET_PRN]
    /\ creates' = [creates EXCEPT ![u] = 0]
    /\ typed' = [typed EXCEPT ![u] = NoData]
    /\ out' = Reply(u, "ask_prn", NoData)
    /\ BotFrame

\* a lookup that answers with a record for a key the directory does not hold
LookupAny(prn) == IF prn \in DOMAIN Students THEN Students[prn] ELSE Students[PrnJohn]

\* student_ref.child(prn).get(): the record, or None
Lookup(prn) == IF prn \in DOMAIN Students THEN Students[prn] ELSE None

GetPrn(u, raw, store_ok) ==
    /\ Handler(conv[u], "text") = "get_prn"
    /\ LET prn == NormalizePrn(raw)
           student_data == Lookup(prn)
       IN  IF ~WellFormedPrn(prn)
           THEN /\ out' = Reply(u, "invalid_prn", NoData)
                /\ UNCHANGED <<conv, user_data, typed>>
           ELSE IF ~store_ok
           THEN /\ out' = Reply(u, "database_error", NoData)
                /\ conv' = [conv EXCEPT ![u] = END]
                /\ typed' = [typed EXCEPT ![u] = NoData]
                /\ UNCHANGED user_data
           ELSE IF student_data \in {None, NoData}
           THEN /\ out' = Reply(u, "prn_not_found", NoData)
                /\ UNCHANGED <<conv, user_data, typed>>
           ELSE /\ user_data' = [user_data EXCEPT
                        ![u] = Put(Put(@, "prn", prn), "student_data", student_data)]
                /\ typed' = [typed EXCEPT
                        ![u] = Put(Put(@, "prn", prn), "student_data", student_data)]
                /\ out' = Reply(u, "prn_verified", [name |-> student_data.name])
                /\ conv' = [conv EXCEPT ![u] = GET_NAME]
    /\ UNCHANGED <<sessions, creates>>
    /\ BotFrame

\* a comparison that accepts every name
NameMatchesAny(text, student_data) == TRUE

\* a comparison that trims and keeps the case of the letters
NameMatchesExact(text, student_data) == Strip(text) = Strip(student_data.name)

\* name_input != correct_name, negated
NameMatches(text, student_data) ==
    Upper(Strip(text)) = Upper(Strip(student_data.name))

\* a get_name that stores the name only when user_data holds none yet
GetNameKeep(u, text) ==
    /\ Handler(conv[u], "text") = "get_name"
    /\ LET student_data == user_data[u]["student_data"]
       IN  IF ~NameMatches(text, student_data)
           THEN /\ out' = Reply(u, "name_mismatch",
                                [name |-> Upper(Strip(student_data.name))])
                /\ UNCHANGED <<conv, user_data, typed>>
           ELSE /\ user_data' = [user_data EXCEPT
                        ![u] = IF "name" \in DOMAIN @ THEN @ ELSE Put(@, "name", Strip(text))]
                /\ typed' = [typed EXCEPT ![u] = Put(@, "name", Strip(text))]
                /\ out' = Reply(u, "name_verified", NoData)
                /\ conv' = [conv EXCEPT ![u] = GET_PHONE]
    /\ UNCHANGED <<sessions, creates>>
    /\ BotFrame

\* a get_name that allows one attempt: a mismatch ends the dialogue
GetNameOnce(u, text) ==
    /\ Handler(conv[u], "text") = "get_name"
    /\ LET student_data == user_data[u]["student_data"]
       IN  IF ~NameMatches(text, student_data)
           THEN /\ out' = Reply(u, "name_mismatch",
                                [name |-> Upper(Strip(student_data.name))])
                /\ conv' = [conv EXCEPT ![u] = END]
                /\ typed' = [typed EXCEPT ![u] = NoData]
                /\ UNCHANGED user_data
           ELSE /\ user_data' = [user_data EXCEPT ![u] = Put(@, "name", Strip(text))]
                /\ typed' = [typed EXCEPT ![u] = Put(@, "name", Strip(text))]
                /\ out' = Reply(u, "name_verified", NoData)
                /\ conv' = [conv EXCEPT ![u] = GET_PHONE]
    /\ UNCHANGED <<sessions, creates>>
    /\ BotFrame

GetName(u, text) ==
    /\ Handler(conv[u], "text") = "get_name"
    /\ LET student_data == user_data[u]["student_data"]
       IN  IF ~NameMatches(text, student_data)
           THEN /\ out' = Reply(u, "name_mismatch",
                                [name |-> Upper(Strip(student_data.name))])
                /\ UNCHANGED <<conv, user_data, typed>>
           ELSE /\ user_data' = [user_data EXCEPT ![u] = Put(@, "name", Strip(text))]
                /\ typed' = [typed EXCEPT ![u] = Put(@, "name", Strip(text))]
                /\ out' = Reply(u, "name_verified", NoData)
                /\ conv' = [conv EXCEPT ![u] = GET_PHONE]
    /\ UNCHANGED <<sessions, creates>>
    /\ BotFrame

\* a comparison of the texts as they are
PhoneMatchesExact(text, student_data) == text = student_data.phone

\* phone_input != correct_phone, negated
PhoneMatches(text, student_data) == Strip(text) = Strip(student_data.phone)

GetPhone(u, text) ==
    /\ Handler(conv[u], "text") = "get_phone"
    /\ LET student_data == user_data[u]["student_data"]
       IN  IF ~PhoneMatches(text, student_data)
           THEN /\ out' = Reply(u, "phone_mismatch", NoData)
                /\ UNCHANGED <<conv, user_data, typed>>
           ELSE /\ user_data' = [user_data EXCEPT ![u] = Put(@, "phone", Strip(text))]
                /\ typed' = [typed EXCEPT ![u] = Put(@, "phone", Strip(text))]
                /\ out' = Reply(u, "confirm_prompt", NoData)
                /\ conv' = [conv EXCEPT ![u] = CONFIRM]
    /\ UNCHANGED <<sessions, creates>>
    /\ BotFrame

\* str(query.message.date) and datetime.utcnow().isoformat()
StrOf(t) == <<"str", t>>

IsoFormat(t) == <<"iso", t>>

Pending == <<"P","e","n","d","i","n","g">>
Approved == <<"A","p","p","r","o","v","e","d">>
Rejected == <<"R","e","j","e","c","t","e","d">>

\* a dictionary built from the data of one fixed user, as a context shared
\* between users would give
ApplicationDataShared(ud, date) ==
    [ prn |-> Get(user_data["u1"], "prn", NoneText),
      name |-> Get(user_data["u1"], "name", NoneText),
      phone |-> Get(user_data["u1"], "phone", NoneText),
      batch |-> Get(Get(user_data["u1"], "student_data", NoData), "batch", "None"),
      status |-> Pending,
      submitted_at |-> StrOf(date) ]

\* a dictionary that is born approved
ApplicationDataApproved(ud, date) ==
    [ prn |-> Get(ud, "prn", NoneText),
      name |-> Get(ud, "name", NoneText),
      phone |-> Get(ud, "phone", NoneText),
      batch |-> Get(Get(ud, "student_data", NoData), "batch", "None"),
      status |-> Approved,
      submitted_at |-> StrOf(date) ]

\* the dictionary confirm_submission builds
ApplicationData(ud, date) ==
    [ prn |-> Get(ud, "prn", NoneText),
      name |-> Get(ud, "name", NoneText),
      phone |-> Get(ud, "phone", NoneText),
      batch |-> Get(Get(ud, "student_data", NoData), "batch", "None"),
      status |-> Pending,
      submitted_at |-> StrOf(date) ]

\* the value of the child push() creates: the empty string, which has no
\* children and is false where the console tests "not app_data"
EmptyValue == [k \in {} |-> None]

\* a confirm_submission that leaves the dialogue where it is
AfterConfirmStay == CONFIRM

\* what confirm_submission returns, on every path
AfterConfirm == END

\* The press of "Yes, Submit" or "No, Cancel"; date is the date of the message
\* that carries the buttons. applications_ref.push().set(application_data) is
\* two requests to the store: push() posts a new child whose value is the empty
\* string and answers with its key, set() then writes the dictionary at that
\* key. push_ok and set_ok tell whether each of them succeeds.
ConfirmSubmission(u, data, date, push_ok, set_ok) ==
    /\ Handler(conv[u], data) = "confirm_submission"
    /\ IF data = "confirm_yes"
       THEN /\ pushed < MaxApps
            /\ creates' = [creates EXCEPT ![u] = @ + 1]
            /\ IF ~push_ok
               THEN /\ out' = Reply(u, "submit_error", NoData)
                    /\ UNCHANGED <<apps, pushed, origin>>
               ELSE IF ~set_ok
               THEN /\ pushed' = pushed + 1
                    /\ apps' = Put(apps, pushed + 1, EmptyValue)
                    /\ out' = Reply(u, "submit_error", NoData)
                    /\ UNCHANGED origin
               ELSE /\ pushed' = pushed + 1
                    /\ apps' = Put(apps, pushed + 1, ApplicationData(user_data[u], date))
                    /\ origin' = origin \cup {pushed + 1}
                    /\ out' = Reply(u, "submitted", NoData)
       ELSE /\ out' = Reply(u, "application_cancelled", NoData)
            /\ UNCHANGED <<apps, pushed, creates, origin>>
    /\ conv' = [conv EXCEPT ![u] = AfterConfirm]
    /\ typed' = [typed EXCEPT ![u] = IF AfterConfirm = END THEN NoData ELSE @]
    /\ restated' = FALSE
    /\ UNCHANGED <<user_data, sessions, req>>

\* /cancel, a fallback of the conversation
Cancel(u) ==
    /\ Handler(conv[u], "/cancel") = "cancel"
    /\ out' = Reply(u, "operation_cancelled", NoData)
    /\ conv' = [conv EXCEPT ![u] = END]
    /\ typed' = [typed EXCEPT ![u] = NoData]
    /\ UNCHANGED <<user_data, sessions, creates>>
    /\ BotFrame

\* an unanswered update that is answered with a prompt all the same
UnhandledPrompt(u, ev) ==
    /\ Handler(conv[u], ev) = "none"
    /\ out' = Reply(u, "finish_or_cancel", NoData)
    /\ UNCHANGED <<conv, user_data, sessions, creates, typed>>
    /\ BotFrame

\* An update no callback of conv_handler takes: nothing runs, nothing is sent.
\* The data of the "none" reply is history: it notes an entry press that went
\* unanswered.
Unhandled(u, ev) ==
    /\ Handler(conv[u], ev) = "none"
    /\ out' = Reply(u, "none",
                    IF ev = "start_bonafide_flow" THEN [update |-> ev] ELSE NoData)
    /\ UNCHANGED <<conv, user_data, sessions, creates, typed>>
    /\ BotFrame

\* ---------------------------------------------------------------- console
\* A key no push() generated, as an administrator can put in a URL.
GhostKey == 0

\* the application identifiers a request carries: those of the stored
\* applications, as the dashboard links them, and one that resolves to nothing
AppIds == {GhostKey} \cup DOMAIN apps

\* values of the form field "status"; the empty text is an absent field
StatusInputs ==
    { Pending, Approved, Rejected,
      <<" ">> \o Approved \o <<"\n">>,
      <<"a","p","p","r","o","v","e","d">>,
      <<>> }

\* a membership test that ignores the case of the first letter
ValidStatusesAnyCase ==
    {Pending, Approved, Rejected, <<"a","p","p","r","o","v","e","d">>}

\* the tuple of process_application's membership test
ValidStatuses == {Pending, Approved, Rejected}

\* applications_ref.child(app_id).get()
GetApp(store, app_id) == IF app_id \in DOMAIN store THEN store[app_id] ELSE None

\* set() in the place of update(): the record becomes the patch
UpdateChildReplace(store, app_id, patch) == Put(store, app_id, patch)

\* a store in which a decision is final: an update of a record whose status is
\* Approved or Rejected is dropped
UpdateChildFinal(store, app_id, patch) ==
    IF Get(GetApp(store, app_id), "status", NoneText) \in {Approved, Rejected}
    THEN store
    ELSE Put(store, app_id,
             [k \in DOMAIN Get(store, app_id, NoData) \cup DOMAIN patch |->
                 IF k \in DOMAIN patch THEN patch[k] ELSE store[app_id][k]])

\* applications_ref.child(app_id).update(patch): writes the given children at
\* the path, whether or not anything is stored there
UpdateChild(store, app_id, patch) ==
    LET old == IF app_id \in DOMAIN store THEN store[app_id] ELSE NoData
        new == [k \in DOMAIN old \cup DOMAIN patch |->
                    IF k \in DOMAIN patch THEN patch[k] ELSE old[k]]
    IN  Put(store, app_id, new)

\* an update that writes the status alone
StatusPatchNoStamp(new_status, t) == [status |-> new_status]

\* an update that stamps the submission time as well
StatusPatchResubmit(new_status, t) ==
    [status |-> new_status, processed_at |-> IsoFormat(t), submitted_at |-> IsoFormat(t)]

\* the children process_application writes
StatusPatch(new_status, t) ==
    [status |-> new_status, processed_at |-> IsoFormat(t)]

WebFrame == UNCHANGED <<conv, user_data, pushed, sessions, creates, origin, req, typed>>

\* POST /application/<app_id>/process
ProcessApplication(app_id, status, t, store_ok) ==
    /\ LET new_status == Strip(status)
       IN  IF new_status \notin ValidStatuses
           THEN /\ out' = Reply("admin", "invalid_status", NoData)
                /\ restated' = FALSE
                /\ UNCHANGED apps
           ELSE IF store_ok
           THEN /\ apps' = UpdateChild(apps, app_id, StatusPatch(new_status, t))
                /\ out' = Reply("admin", "status_updated", NoData)
                /\ restated' = (Get(GetApp(apps, app_id), "status", NoneText) = new_status)
           ELSE /\ out' = Reply("admin", "update_failed", NoData)
                /\ restated' = FALSE
                /\ UNCHANGED apps
    /\ WebFrame

\* The same handler as two threads run it side by side: the validation of
\* lines 146-149 is local to the thread, the update() of lines 153-156 is one
\* request to the store, and another thread may run between the two. arrived
\* and order are history: the rank of the request among those received, and of
\* its update among those the store applied.
ProcessReceive(w, app_id, status) ==
    /\ req[w] = Idle
    /\ LET new_status == Strip(status)
           arrived == 1 + Cardinality({v \in Workers : req[v] # Idle})
       IN  IF new_status \notin ValidStatuses
           THEN /\ out' = Reply("admin", "invalid_status", NoData)
                /\ req' = [req EXCEPT ![w] = [pc |-> "refused", arrived |-> arrived]]
           ELSE /\ UNCHANGED out
                /\ req' = [req EXCEPT ![w] =
                              [pc |-> "update", app_id |-> app_id,
                               status |-> new_status, arrived |-> arrived]]
    /\ restated' = FALSE
    /\ UNCHANGED <<apps, conv, user_data, pushed, sessions, creates, origin, typed>>

\* a store that keeps the first decision: an update of a record that carries
\* processed_at is dropped
UpdateChildOnce(store, app_id, patch) ==
    IF app_id \in DOMAIN store /\ "processed_at" \in DOMAIN store[app_id]
    THEN store
    ELSE UpdateChild(store, app_id, patch)

\* the store applying the update of a validated request
ApplyUpdate(store, app_id, patch) == UpdateChild(store, app_id, patch)

ProcessApply(w, t, store_ok) ==
    /\ req[w].pc = "update"
    /\ LET order == 1 + Cardinality({v \in Workers : req[v].pc = "done"})
       IN  IF store_ok
           THEN /\ apps' = ApplyUpdate(apps, req[w].app_id, StatusPatch(req[w].status, t))
                /\ out' = Reply("admin", "status_updated", NoData)
                /\ req' = [req EXCEPT ![w] =
                              [pc |-> "done", app_id |-> @.app_id, status |-> @.status,
                               arrived |-> @.arrived, order |-> order]]
           ELSE /\ out' = Reply("admin", "update_failed", NoData)
                /\ req' = [req EXCEPT ![w] =
                              [pc |-> "failed", app_id |-> @.app_id, status |-> @.status,
                               arrived |-> @.arrived]]
                /\ UNCHANGED apps
    /\ restated' = FALSE
    /\ UNCHANGED <<conv, user_data, pushed, sessions, creates, origin, typed>>

\* GET /application/<app_id>
ViewApplication(app_id, store_ok) ==
    /\ LET app_data == IF store_ok THEN GetApp(apps, app_id) ELSE None
       IN  IF app_data \in {None, NoData}
           THEN out' = Reply("admin", "application_not_found", NoData)
           ELSE out' = Reply("admin", "application_page", NoData)
    /\ restated' = FALSE
    /\ UNCHANGED apps
    /\ WebFrame

\* GET /dashboard
Dashboard(store_ok) ==
    /\ IF store_ok
       THEN out' = Reply("admin", "dashboard", NoData)
       ELSE out' = Reply("admin", "dashboard_not_loaded", NoData)
    /\ restated' = FALSE
    /\ UNCHANGED apps
    /\ WebFrame

\* the fields print_bonafide draws on the certificate
CertificateData(app_data) ==
    [ name |-> Get(app_data, "name", <<>>),
      prn |-> Get(app_data, "prn", <<>>),
      batch |-> Get(app_data, "batch", ""),
      branch |-> Get(app_data, "branch", "Engineering"),
      year |-> Get(app_data, "year", "First Year"),
      purpose |-> Get(app_data, "purpose", "Bonafide Certificate") ]

\* a gate that only keeps pending applications from printing
IsApprovedOrRejected(app_data) == Get(app_data, "status", NoneText) # Pending

\* the test "app_data.get('status') != 'Approved'", negated
IsApproved(app_data) == Get(app_data, "status", NoneText) = Approved

\* GET /application/<app_id>/print; render_ok: whether the drawing succeeds
PrintBonafide(app_id, store_ok, render_ok) ==
    /\ LET app_data == GetApp(apps, app_id)
       IN  IF ~store_ok
           THEN out' = Reply("admin", "pdf_generation_failed", NoData)
           ELSE IF app_data \in {None, NoData}
           THEN out' = Reply("admin", "not_found", NoData)
           ELSE IF ~IsApproved(app_data)
           THEN out' = Reply("admin", "not_approved", NoData)
           ELSE IF ~render_ok
           THEN out' = Reply("admin", "pdf_generation_failed", NoData)
           ELSE out' = Reply("admin", "pdf", CertificateData(app_data))
    /\ restated' = FALSE
    /\ UNCHANGED apps
    /\ WebFrame

BotNext ==
    \/ \E u \in Users : StartBonafideFlow(u)
    \/ \E u \in Users, t \in TextInputs, ok \in BOOLEAN : GetPrn(u, t, ok)
    \/ \E u \in Users, t \in TextInputs : GetName(u, t)
    \/ \E u \in Users, t \in TextInputs : GetPhone(u, t)
    \/ \E u \in Users, d \in {"confirm_yes", "confirm_no"}, t \in Dates,
          push_ok \in BOOLEAN, set_ok \in BOOLEAN :
          ConfirmSubmission(u, d, t, push_ok, set_ok)
    \/ \E u \in Users : Cancel(u)
    \/ \E u \in Users, ev \in Events : Unhandled(u, ev)

WebNext ==
    \/ \E id \in AppIds, s \in StatusInputs, t \in Timestamps, ok \in BOOLEAN :
          ProcessApplication(id, s, t, ok)
    \/ \E id \in AppIds, ok \in BOOLEAN : ViewApplication(id, ok)
    \/ \E ok \in BOOLEAN : Dashboard(ok)
    \/ \E id \in AppIds, ok \in BOOLEAN, r \in BOOLEAN : PrintBonafide(id, ok, r)

Next == BotNext

\* The verification dialogues of the requesters over the store.
Spec == Init /\ [][Next]_vars

\* context.user_data as the dialogue leaves it once get_prn, get_name and
\* get_phone have accepted the texts raw, name and phone
VerifiedData(u, raw, name, phone) ==
    [ chat_id |-> u,
      prn |-> NormalizePrn(raw),
      student_data |-> Lookup(NormalizePrn(raw)),
      name |-> Strip(name),
      phone |-> Strip(phone) ]

\* The second requester has submitted an application and the first, verified,
\* sees the confirmation buttons: a state Spec reaches, from which the console
\* is explored.
ConsoleInit ==
    /\ conv = [u \in Users |-> IF u = "u1" THEN CONFIRM ELSE END]
    /\ user_data =
          [u \in Users |->
              IF u = "u1"
              THEN VerifiedData(u, PrnJohn,
                       <<" ","j","o","h","n"," ","s","m","i","t","h"," ">>, PhoneJohn)
              ELSE VerifiedData(u, PrnJane, <<"J","A","N","E"," ","D","O","E">>, PhoneJane)]
    /\ apps = Put(NoData, 1, ApplicationData(user_data["u2"], "T1"))
    /\ pushed = 1
    /\ out = Reply("u2", "submitted", NoData)
    /\ sessions = 2
    /\ creates = [u \in Users |-> IF u = "u1" THEN 0 ELSE 1]
    /\ origin = {1}
    /\ restated = FALSE
    /\ req = [w \in Workers |-> Idle]
    /\ typed = [u \in Users |->
                   IF u = "u1" THEN Without(user_data[u], "chat_id") ELSE NoData]

ConsoleNext ==
    \/ \E u \in Users, d \in {"confirm_yes", "confirm_no"}, t \in Dates,
          push_ok \in BOOLEAN, set_ok \in BOOLEAN :
          ConfirmSubmission(u, d, t, push_ok, set_ok)
    \/ WebNext

\* The console over the store the verified requesters submit to.
ConsoleSpec == ConsoleInit /\ [][ConsoleNext]_vars

RaceNext ==
    \/ \E w \in Workers, id \in AppIds, s \in StatusInputs : ProcessReceive(w, id, s)
    \/ \E w \in Workers, t \in Timestamps, ok \in BOOLEAN : ProcessApply(w, t, ok)

\* Two status updates served side by side over the store of ConsoleInit.
RaceSpec == ConsoleInit /\ [][RaceNext]_vars

\* ---------------------------------------------------------------- claims
\* the record stored under app_id, the empty dictionary when there is none
Stored(app_id) == IF app_id \in DOMAIN apps THEN apps[app_id] ELSE NoData

\* C1: in every dialogue push().set() is invoked at most once, and only by a
\* press of "Yes, Submit" that confirm_submission takes while the dialogue is
\* in CONFIRM; no other update of any user generates a key.
C1_CreateAtMostOnce ==
    [][ /\ \A u \in Users :
            /\ creates'[u] \in {0, 1}
            /\ creates'[u] > creates[u] =>
                  /\ conv[u] = CONFIRM
                  /\ \E t \in Dates, push_ok \in BOOLEAN, set_ok \in BOOLEAN :
                        ConfirmSubmission(u, "confirm_yes", t, push_ok, set_ok)
        /\ pushed' # pushed =>
              /\ pushed' = pushed + 1
              /\ \E u \in Users : creates[u] = 0 /\ creates'[u] = 1 ]_vars

\* C1 witness: a dialogue has invoked the create once and ended, and a later
\* update of its user (a repeated press, a text) was taken by no callback.
C1_Witness ==
    \E u \in Users :
        /\ creates[u] = 1
        /\ conv[u] = END
        /\ out = Reply(u, "none", NoData)

\* the texts that normalize to 8 digits the directory does not hold
AbsentPrnInputs ==
    { raw \in TextInputs :
        WellFormedPrn(NormalizePrn(raw)) /\ NormalizePrn(raw) \notin DOMAIN Students }

\* C3: a step get_prn takes on a text that normalizes to 8 digits the
\* directory does not hold leaves the dialogue in GET_PRN with user_data as it
\* was; the one exception is a lookup the store fails, which ends the dialogue,
\* still with nothing stored. No such step moves the dialogue forward.
C3_AbsentPrnStays ==
    [][ \A u \in Users :
          ( conv[u] = GET_PRN /\ out'.to = u )
          => \/ conv'[u] = GET_PRN /\ user_data' = user_data
             \/ \A raw \in AbsentPrnInputs :
                   /\ ~GetPrn(u, raw, TRUE)
                   /\ GetPrn(u, raw, FALSE)
                        => conv'[u] = END /\ user_data' = user_data ]_vars

\* C3 witness: a well-formed identifier was looked up and not found, and the
\* dialogue waits for the identifier with none stored.
C3_Witness ==
    \E u \in Users :
        /\ conv[u] = GET_PRN
        /\ out = Reply(u, "prn_not_found", NoData)
        /\ "prn" \notin DOMAIN user_data[u]

\* C4 as stated: every application confirm_submission stores carries the
\* canonical name, the registered phone and the batch of the record of its
\* identifier.
C4_Original ==
    \A k \in origin :
        /\ apps[k].prn \in DOMAIN Students
        /\ apps[k].name = Students[apps[k].prn].name
        /\ apps[k].phone = Students[apps[k].prn].phone
        /\ apps[k].batch = Students[apps[k].prn].batch

\* C4 amended: every application confirm_submission stores carries an
\* identifier of the directory, the name as the requester typed it, trimmed
\* (equal to the canonical name up to letter case and surrounding whitespace),
\* the registered phone trimmed, the record's batch and the status Pending.
C4_TypedNameStored ==
    \A k \in origin :
        /\ apps[k].prn \in DOMAIN Students
        /\ apps[k].name = Strip(apps[k].name)
        /\ Upper(apps[k].name) = Upper(Strip(Students[apps[k].prn].name))
        /\ apps[k].phone = Strip(Students[apps[k].prn].phone)
        /\ apps[k].batch = Students[apps[k].prn].batch
        /\ apps[k].status = Pending

\* C4 witness: an application is stored whose name is the typed "john smith",
\* not the canonical "John Smith".
C4_Witness ==
    \E k \in origin :
        /\ apps[k].prn = PrnJohn
        /\ apps[k].name = <<"j","o","h","n"," ","s","m","i","t","h">>
        /\ apps[k].phone = PhoneJohn

\* C2: a print request for a stored application whose status is not Approved
\* never yields a certificate nor any of its data, whatever updates came
\* before; when the store answers the read, the response is "not approved".
C2_PrintNeedsApproved ==
    [][ \A id \in DOMAIN apps, ok \in BOOLEAN, r \in BOOLEAN :
          ( /\ apps[id] # EmptyValue
            /\ Get(apps[id], "status", NoneText) # Approved
            /\ PrintBonafide(id, ok, r) )
          => /\ out'.kind # "pdf"
             /\ out'.data = NoData
             /\ (ok => out'.kind = "not_approved") ]_vars

\* C2 witness: an application a requester submitted was set to Rejected, and
\* the print request that followed was answered "not approved".
C2_Witness ==
    /\ out = Reply("admin", "not_approved", NoData)
    /\ \E id \in origin :
          /\ apps[id].status = Rejected
          /\ "processed_at" \in DOMAIN apps[id]
    /\ \A id \in origin : apps[id].status # Pending

\* the form values that are one of the three statuses once trimmed, and the rest
AcceptedStatusInputs == { s \in StatusInputs : Strip(s) \in {Pending, Approved, Rejected} }

RefusedStatusInputs == StatusInputs \ AcceptedStatusInputs

\* the keys under which an acting administrator would be recorded
ProcessedByKeys == {"processed_by", "processedBy"}

C6_Claim ==
    [][ \A id \in AppIds, s \in StatusInputs, t \in Timestamps, ok \in BOOLEAN :
          ( ProcessApplication(id, s, t, ok) /\ id \notin DOMAIN apps )
          => /\ apps' = apps
             /\ out'.kind \in {"not_found", "application_not_found"} ]_vars

\* C7 as stated: the stored applications are exactly those under the keys the
\* push() of confirm_submission generated: the console adds none and nothing
\* removes one.
C7_Claim == DOMAIN apps = 1..pushed

\* C8 as stated: a status update whose form value is not one of the three
\* statuses is answered "invalid status" and changes no record.
C8_Original ==
    [][ \/ out'.kind = "invalid_status" /\ apps' = apps
        \/ \A id \in AppIds, s \in StatusInputs \ {Pending, Approved, Rejected},
               t \in Timestamps, ok \in BOOLEAN :
              ~ProcessApplication(id, s, t, ok) ]_vars

\* C8 amended: a status update whose form value, with surrounding whitespace
\* trimmed, is not one of Pending, Approved, Rejected is answered "invalid
\* status" and changes no record, whatever the status stored.
C8_InvalidStatusRejected ==
    [][ \/ out'.kind = "invalid_status" /\ apps' = apps
        \/ \A id \in AppIds, s \in RefusedStatusInputs, t \in Timestamps, ok \in BOOLEAN :
              ~ProcessApplication(id, s, t, ok) ]_vars

\* C8 witness: an invalid status was refused while an Approved and a Rejected
\* application are stored.
C8_Witness ==
    /\ out = Reply("admin", "invalid_status", NoData)
    /\ \E id \in origin : apps[id].status = Approved
    /\ \E id \in origin : apps[id].status = Rejected

\* C9: no step changes or removes a stored field other than status and
\* processed_at, adds a field other than these two, or removes a record.
C9_FieldsImmutable ==
    [][ \A id \in DOMAIN apps :
          /\ id \in DOMAIN apps'
          /\ DOMAIN apps[id] \subseteq DOMAIN apps'[id]
          /\ DOMAIN apps'[id] \subseteq DOMAIN apps[id] \cup {"status", "processed_at"}
          /\ \A k \in DOMAIN apps[id] \ {"status", "processed_at"} :
                apps'[id][k] = apps[id][k] ]_vars

\* C9 witness: a submitted application was approved and still carries what
\* the requester submitted.
C9_Witness ==
    \E id \in origin :
        /\ apps[id].status = Approved
        /\ "processed_at" \in DOMAIN apps[id]
        /\ apps[id].prn = PrnJane
        /\ apps[id].name = <<"J","A","N","E"," ","D","O","E">>
        /\ apps[id].phone = PhoneJane
        /\ apps[id].batch = "2023-27"
        /\ apps[id].submitted_at = StrOf("T1")

\* C10: an update to the status a stored record already has succeeds when the
\* store takes it and changes nothing but processed_at, in that record or any
\* other; and two updates to one status leave the record one of them leaves,
\* up to processed_at.
C10_RestatedStatus ==
    /\ [][ \A id \in DOMAIN apps, raw \in AcceptedStatusInputs, t \in Timestamps :
              ( /\ restated'
                /\ Get(apps[id], "status", NoneText) = Strip(raw)
                /\ ProcessApplication(id, raw, t, TRUE) )
              => /\ out'.kind = "status_updated"
                 /\ DOMAIN apps' = DOMAIN apps
                 /\ \A j \in DOMAIN apps \ {id} : apps'[j] = apps[j]
                 /\ DOMAIN apps'[id] = DOMAIN apps[id] \cup {"processed_at"}
                 /\ \A k \in DOMAIN apps[id] \ {"processed_at"} :
                       apps'[id][k] = apps[id][k] ]_vars
    /\ [](\A id \in DOMAIN apps, s \in ValidStatuses, t \in Timestamps, t2 \in Timestamps :
              LET once == UpdateChild(apps, id, StatusPatch(s, t))
                  twice == UpdateChild(once, id, StatusPatch(s, t2))
              IN  /\ DOMAIN twice = DOMAIN once
                  /\ \A j \in DOMAIN once \ {id} : twice[j] = once[j]
                  /\ Without(twice[id], "processed_at")
                        = Without(once[id], "processed_at"))

\* C10 witness: Approved was set again on an application a requester
\* submitted and that was Approved already.
C10_Witness ==
    /\ restated
    /\ out = Reply("admin", "status_updated", NoData)
    /\ \E id \in origin : apps[id].status = Approved

\* C11: a step taken on an update of one user leaves the dialogue state, the
\* user_data and the create count of every other user as they were; and a step
\* that changes the store adds one entry under a key not used before, leaves
\* every other entry as it was, and the record it writes carries the
\* identifier, name, phone and batch of the user_data of the user whose press
\* it is.
C11_ActorsIsolated ==
    [][ /\ \A u \in Users :
              out'.to # u
              => /\ conv'[u] = conv[u]
                 /\ user_data'[u] = user_data[u]
                 /\ creates'[u] = creates[u]
        /\ apps' # apps
              => /\ pushed' = pushed + 1
                 /\ pushed' \notin DOMAIN apps
                 /\ DOMAIN apps' = DOMAIN apps \cup {pushed'}
                 /\ \A k \in DOMAIN apps : apps'[k] = apps[k]
                 /\ \E u \in Users :
                       /\ out'.to = u
                       /\ conv[u] = CONFIRM
                       /\ \/ apps'[pushed'] = EmptyValue
                          \/ /\ apps'[pushed'].prn = user_data[u]["prn"]
                             /\ apps'[pushed'].name = user_data[u]["name"]
                             /\ apps'[pushed'].phone = user_data[u]["phone"]
                             /\ apps'[pushed'].batch = user_data[u]["student_data"].batch ]_vars

\* C11 witness: both users have submitted in dialogues of their own, and the
\* two records stored are John's under one key and Jane's under another.
C11_Witness ==
    /\ \A u \in Users : creates[u] = 1 /\ conv[u] = END
    /\ origin = {1, 2}
    /\ {apps[1].prn, apps[2].prn} = {PrnJohn, PrnJane}
    /\ \A k \in origin :
          apps[k].batch = Students[apps[k].prn].batch
          /\ Upper(apps[k].name) = Upper(Students[apps[k].prn].name)

\* C12: whatever the order in which two requests are received and their
\* updates applied, the status stored for an application is the target of the
\* update the store applied last to it, also while another request is still in
\* flight, and the record carries the processing time of an update. (The
\* update reads nothing: what ProcessApply writes is built from the request and
\* the clock.)
C12_LastAppliedWins ==
    \A id \in AppIds :
        LET done == {w \in Workers : req[w].pc = "done" /\ req[w].app_id = id}
        IN  done # {}
            => \E w \in done :
                  /\ \A v \in done : req[v].order <= req[w].order
                  /\ id \in DOMAIN apps
                  /\ apps[id]["status"] = req[w].status
                  /\ \E t \in Timestamps : apps[id]["processed_at"] = IsoFormat(t)

\* C12 witness: two requests for the stored application with different
\* targets, the one received first applied last, and its target stored.
C12_Witness ==
    /\ req["w1"].pc = "done" /\ req["w2"].pc = "done"
    /\ req["w1"].app_id = 1 /\ req["w2"].app_id = 1
    /\ req["w1"].arrived < req["w2"].arrived
    /\ req["w1"].order > req["w2"].order
    /\ req["w1"].status = Rejected /\ req["w2"].status = Approved
    /\ apps[1].status = Rejected

\* C13: a user has one dialogue state, and while it is live the entry press is
\* taken by no callback; a dialogue is started only for a user who has none
\* live; and the step of an entry press inside a live dialogue leaves the
\* state of the dialogue, its user_data and the count of dialogues as they were.
C13_OneLiveSession ==
    /\ [](\A u \in Users :
            conv[u] # END => Handler(conv[u], "start_bonafide_flow") = "none")
    /\ [][ \A u \in Users :
              /\ (sessions' # sessions /\ out'.to = u)
                    => conv[u] = END /\ conv'[u] = GET_PRN /\ sessions' = sessions + 1
              /\ (conv[u] # END /\ out' = Reply(u, "none", [update |-> "start_bonafide_flow"]))
                    => /\ conv' = conv
                       /\ user_data' = user_data
                       /\ sessions' = sessions
                       /\ creates' = creates ]_vars

\* C13 witness: the entry button was pressed by a user whose one dialogue had
\* reached the confirmation, and the dialogue is where it was with its fields.
C13_Witness ==
    \E u \in Users :
        /\ conv[u] = CONFIRM
        /\ sessions = 1
        /\ out = Reply(u, "none", [update |-> "start_bonafide_flow"])
        /\ {"prn", "student_data", "name", "phone"} \subseteq DOMAIN user_data[u]

C15_CancelEnds ==
    /\ [](\A u \in Users :
            conv[u] \in {GET_PRN, GET_NAME, GET_PHONE, CONFIRM}
            => Handler(conv[u], "/cancel") = "cancel")
    /\ [][ \A u \in Users :
              /\ (conv[u] # END /\ out' = Reply(u, "operation_cancelled", NoData))
                    => /\ Cancel(u)
                       /\ conv'[u] = END
                       /\ creates[u] = 0 /\ creates'[u] = 0
                       /\ apps' = apps /\ pushed' = pushed
              /\ (conv[u] = END /\ creates'[u] # creates[u])
                    => conv'[u] = GET_PRN /\ creates'[u] = 0 ]_vars

\* C15 witness: the one dialogue of a user was cancelled when the name and the
\* phone had been verified, and the store is empty.
C15_Witness ==
    \E u \in Users :
        /\ out = Reply(u, "operation_cancelled", NoData)
        /\ conv[u] = END
        /\ sessions = 1
        /\ creates[u] = 0
        /\ {"name", "phone"} \subseteq DOMAIN user_data[u]
        /\ apps = NoData

\* C16 as stated: whenever the requester is told that the submission failed,
\* the store holds no entry it did not hold before the press.
C16_Claim ==
    [][ \A u \in Users :
          out' = Reply(u, "submit_error", NoData) => apps' = apps ]_vars

\* C17: a press of "Yes, Submit" whose create fails ends the dialogue with the
\* error notice, the create having been invoked once; a dialogue invokes the
\* create only from CONFIRM and only if it has not invoked it before; an ended
\* dialogue is left only by the entry press, for GET_PRN; and each of GET_NAME,
\* GET_PHONE and CONFIRM is entered only from the state before it.
C17_NoRetryOfCreate ==
    [][ \A u \in Users :
          /\ out' = Reply(u, "submit_error", NoData)
                => conv[u] = CONFIRM /\ conv'[u] = END /\ creates'[u] = 1
          /\ creates'[u] > creates[u]
                => conv[u] = CONFIRM /\ creates[u] = 0
          /\ (conv[u] = END /\ conv'[u] # END)
                => conv'[u] = GET_PRN /\ out' = Reply(u, "ask_prn", NoData)
          /\ (conv'[u] = GET_NAME /\ conv[u] # GET_NAME) => conv[u] = GET_PRN
          /\ (conv'[u] = GET_PHONE /\ conv[u] # GET_PHONE) => conv[u] = GET_NAME
          /\ (conv'[u] = CONFIRM /\ conv[u] # CONFIRM) => conv[u] = GET_PHONE ]_vars

\* C17 witness: the set() of a user's first dialogue failed and left the
\* empty child of its push(); the same user, the only one to have pressed
\* anything, went through a second dialogue and its create succeeded.
C17_Witness ==
    \E u \in Users :
        /\ sessions = 2
        /\ DOMAIN apps = {1, 2}
        /\ apps[1] = EmptyValue
        /\ origin = {2}
        /\ conv[u] = END
        /\ creates[u] = 1
        /\ out = Reply(u, "submitted", NoData)
        /\ \A v \in Users \ {u} : user_data[v] = NoData

\* the texts get_prn's validation refuses, and those it lets through
MalformedInputs ==
    { raw \in TextInputs :
        ~IsDigit(NormalizePrn(raw)) \/ Len(NormalizePrn(raw)) # PrnLen }

WellFormedInputs == TextInputs \ MalformedInputs

\* C18: a step of get_prn answered "database error" ends the dialogue, stores
\* nothing in user_data and leaves the store and the create counts as they
\* were; "invalid" and "not found" leave the dialogue in GET_PRN with nothing
\* stored; a failed lookup of a well-formed identifier is always answered
\* "database error", and a malformed text never is, the store failing or not.
C18_LookupFailureEnds ==
    [][ \A u \in Users :
          (conv[u] = GET_PRN /\ out'.to = u)
          => /\ out'.kind = "database_error"
                   => /\ conv'[u] = END
                      /\ user_data' = user_data
                      /\ apps' = apps /\ pushed' = pushed /\ creates' = creates
                      /\ \A raw \in MalformedInputs, ok \in BOOLEAN : ~GetPrn(u, raw, ok)
             /\ out'.kind \in {"invalid_prn", "prn_not_found"}
                   => conv'[u] = GET_PRN /\ user_data' = user_data
             /\ out'.kind # "database_error"
                   => \A raw \in WellFormedInputs : ~GetPrn(u, raw, FALSE) ]_vars

\* C18 witness: the lookup of a well-formed identifier failed in a user's one
\* dialogue: the dialogue is over, and neither identifier nor record is stored.
C18_Witness ==
    \E u \in Users :
        /\ out = Reply(u, "database_error", NoData)
        /\ conv[u] = END
        /\ sessions = 1
        /\ DOMAIN user_data[u] = {"chat_id"}
        /\ apps = NoData

\* C19 as stated: get_phone accepts a text exactly when it is, character for
\* character, the phone of the record.
C19_Original ==
    [][ \A u \in Users :
          (conv[u] = GET_PHONE /\ out'.to = u)
          => \A text \in TextInputs :
                GetPhone(u, text)
                => (conv'[u] = CONFIRM <=> text = user_data[u]["student_data"].phone) ]_vars

\* C19 amended: get_phone accepts a text exactly when the text and the phone
\* of the record are equal once the whitespace around each is trimmed; digits
\* are not normalized (a leading zero makes a different phone). An accepted
\* text is stored trimmed and the buttons are shown; a refused one leaves the
\* dialogue in GET_PHONE with nothing stored.
C19_PhoneTrimmedEqual ==
    [][ \A u \in Users :
          (conv[u] = GET_PHONE /\ out'.to = u)
          => \A text \in TextInputs :
                \/ IF Strip(text) = Strip(user_data[u]["student_data"].phone)
                   THEN /\ out'.kind = "confirm_prompt"
                        /\ conv'[u] = CONFIRM
                        /\ user_data'[u]["phone"] = Strip(text)
                   ELSE /\ out'.kind = "phone_mismatch"
                        /\ conv'[u] = GET_PHONE
                        /\ user_data' = user_data
                \/ ~GetPhone(u, text) ]_vars

\* C19 witness: Jane's phone is registered with a space after it, and the
\* text without that space was accepted and stored.
C19_Witness ==
    \E u \in Users :
        /\ conv[u] = CONFIRM
        /\ out = Reply(u, "confirm_prompt", NoData)
        /\ user_data[u]["phone"] = PhoneJane
        /\ user_data[u]["student_data"].phone = PhoneJane \o <<" ">>

\* the two cases of each letter, in both orders
CasePairs ==
    { <<LowerLetters[j], UpperLetters[j]>> : j \in 1..Len(LowerLetters) }
        \cup { <<UpperLetters[j], LowerLetters[j]>> : j \in 1..Len(LowerLetters) }

\* equality of two texts up to the case of their letters
EqualIgnoringCase(a, b) ==
    /\ Len(a) = Len(b)
    /\ \A i \in 1..Len(a) : a[i] = b[i] \/ <<a[i], b[i]>> \in CasePairs

\* C20: get_name accepts a text exactly when, with the whitespace around it
\* trimmed, it equals the trimmed name of the record up to the case of the
\* letters; a refused text is answered "name mismatch" and leaves the dialogue
\* in GET_NAME with nothing stored.
C20_NameTrimmedCaseless ==
    [][ \A u \in Users :
          (conv[u] = GET_NAME /\ out'.to = u)
          => \A text \in TextInputs :
                \/ IF EqualIgnoringCase(Strip(text), Strip(user_data[u]["student_data"].name))
                   THEN out'.kind = "name_verified" /\ conv'[u] = GET_PHONE
                   ELSE /\ out'.kind = "name_mismatch"
                        /\ conv'[u] = GET_NAME
                        /\ user_data' = user_data
                \/ ~GetName(u, text) ]_vars

\* C20 witness: "  jane doe " was accepted for the record "Jane Doe".
C20_Witness ==
    \E u \in Users :
        /\ conv[u] = GET_PHONE
        /\ out = Reply(u, "name_verified", NoData)
        /\ user_data[u]["student_data"].name = NameJane
        /\ user_data[u]["name"] = <<"j","a","n","e"," ","d","o","e">>

\* the status a record shows, "None" when it has none
StatusOf(store, app_id) == Get(GetApp(store, app_id), "status", NoneText)

\* C21: whatever status a stored application has, a status update to any of
\* Pending, Approved, Rejected is accepted and becomes its status, a move from
\* Approved or Rejected back to Pending included; and the status of a stored
\* application changes only in a step of process_application that the console
\* answers "status updated".
C21_AnyStatusFromAny ==
    /\ [][ \A id \in DOMAIN apps :
              StatusOf(apps', id) # StatusOf(apps, id)
              => /\ out' = Reply("admin", "status_updated", NoData)
                 /\ \E s \in AcceptedStatusInputs, t \in Timestamps :
                       /\ StatusOf(apps', id) = Strip(s)
                       /\ ProcessApplication(id, s, t, TRUE) ]_vars
    /\ [](\A id \in DOMAIN apps, target \in {Pending, Approved, Rejected} :
              ENABLED ( /\ ProcessApplication(id, target, "T1", TRUE)
                        /\ out'.kind = "status_updated"
                        /\ StatusOf(apps', id) = target ))

\* C21 witness: the only stored application, a submitted one, was moved to
\* Pending by an update that changed its status: it was Approved or Rejected.
C21_Witness ==
    /\ DOMAIN apps = {1}
    /\ origin = {1}
    /\ out = Reply("admin", "status_updated", NoData)
    /\ ~restated
    /\ apps[1]["status"] = Pending
    /\ "processed_at" \in DOMAIN apps[1]

\* C22: a record that confirm_submission has just written has the status
\* Pending; the status of a key becomes Approved only in a step of
\* process_application that applies an accepted update to Approved to that
\* key; and every print that answers with a certificate is for a key whose
\* record shows Approved before the print. No record is Approved at the start,
\* so every certificate comes after an accepted update to Approved of its key.
C22_PrintAfterApproval ==
    [][ /\ out'.kind = "submitted" => apps'[pushed']["status"] = Pending
        /\ \A id \in AppIds \cup DOMAIN apps' :
              (StatusOf(apps', id) = Approved /\ StatusOf(apps, id) # Approved)
              => /\ out' = Reply("admin", "status_updated", NoData)
                 /\ \E s \in AcceptedStatusInputs, t \in Timestamps :
                       /\ Strip(s) = Approved
                       /\ ProcessApplication(id, s, t, TRUE)
        /\ out'.kind = "pdf"
              => \A id \in AppIds :
                    \/ StatusOf(apps, id) = Approved
                    \/ ~PrintBonafide(id, TRUE, TRUE) ]_vars
    /\ (\A id \in DOMAIN apps : StatusOf(apps, id) # Approved)

\* C22 witness: the certificate of the submitted application was printed; its
\* record shows Approved and the time of the update that approved it.
C22_Witness ==
    /\ out.to = "admin"
    /\ out.kind = "pdf"
    /\ out.data.prn = PrnJane
    /\ origin = {1}
    /\ DOMAIN apps = {1}
    /\ apps[1]["status"] = Approved
    /\ "processed_at" \in DOMAIN apps[1]

\* the fields of user_data[u] agree with the directory: the identifier is a key
\* of it and student_data is the record under that key
PrnAccepted(ud) ==
    /\ {"prn", "student_data"} \subseteq DOMAIN ud
    /\ ud["prn"] \in DOMAIN Students
    /\ ud["student_data"] = Students[ud["prn"]]

\* the stored name is the name of the record up to case and padding
NameAccepted(ud) ==
    /\ "name" \in DOMAIN ud
    /\ EqualIgnoringCase(Strip(ud["name"]), Strip(ud["student_data"].name))

\* the stored phone is the phone of the record up to padding
PhoneAccepted(ud) ==
    /\ "phone" \in DOMAIN ud
    /\ Strip(ud["phone"]) = Strip(ud["student_data"].phone)

\* C23: the state of a dialogue changes only by ending, by the entry from END
\* to GET_PRN, or by one step forward taken by the callback of the state when
\* it accepts: GET_PRN to GET_NAME with an identifier found in the directory and
\* its record stored, GET_NAME to GET_PHONE with a name that matches that
\* record, GET_PHONE to CONFIRM with a phone that matches it. No step skips a
\* state or goes back to an earlier one, so a dialogue in CONFIRM has had its
\* identifier, name and phone accepted, in this order, since its entry.
C23_StepsInOrder ==
    [][ \A u \in Users :
          conv'[u] # conv[u]
          => \/ conv'[u] = END
             \/ /\ conv[u] = END
                /\ conv'[u] = GET_PRN
                /\ out' = Reply(u, "ask_prn", NoData)
             \/ /\ conv[u] = GET_PRN
                /\ conv'[u] = GET_NAME
                /\ out'.to = u /\ out'.kind = "prn_verified"
                /\ PrnAccepted(user_data'[u])
                /\ \E raw \in WellFormedInputs : user_data'[u]["prn"] = NormalizePrn(raw)
             \/ /\ conv[u] = GET_NAME
                /\ conv'[u] = GET_PHONE
                /\ out' = Reply(u, "name_verified", NoData)
                /\ PrnAccepted(user_data[u])
                /\ user_data'[u]["student_data"] = user_data[u]["student_data"]
                /\ NameAccepted(user_data'[u])
             \/ /\ conv[u] = GET_PHONE
                /\ conv'[u] = CONFIRM
                /\ out' = Reply(u, "confirm_prompt", NoData)
                /\ PrnAccepted(user_data[u])
                /\ NameAccepted(user_data[u])
                /\ user_data'[u]["student_data"] = user_data[u]["student_data"]
                /\ user_data'[u]["name"] = user_data[u]["name"]
                /\ PhoneAccepted(user_data'[u]) ]_vars

\* C23 witness: a second dialogue of the same requester stands at the
\* confirmation with all three fields accepted.
C23_Witness ==
    \E u \in Users :
        /\ conv[u] = CONFIRM
        /\ out = Reply(u, "confirm_prompt", NoData)
        /\ sessions = 2
        /\ \A v \in Users \ {u} : user_data[v] = NoData
        /\ PrnAccepted(user_data[u])
        /\ NameAccepted(user_data[u])
        /\ PhoneAccepted(user_data[u])

\* the replies that report a rejected input, and the state each is given in
Rejections ==
    [ invalid_prn |-> GET_PRN, prn_not_found |-> GET_PRN,
      name_mismatch |-> GET_NAME, phone_mismatch |-> GET_PHONE ]

\* C24: a step that answers a requester with a rejection (invalid identifier,
\* identifier not found, name mismatch, phone mismatch) changes nothing but the
\* reply: every dialogue keeps its state and every requester's fields stay as
\* they were; and in every state that follows a rejection the dialogue is still
\* in the state of that input and a further rejection of the same kind can be
\* taken, which again changes nothing.
C24_RejectionStays ==
    /\ [][ out'.kind \in DOMAIN Rejections
             => /\ conv[out'.to] = Rejections[out'.kind]
                /\ conv' = conv
                /\ user_data' = user_data
                /\ UNCHANGED <<apps, pushed, sessions, creates>> ]_vars
    /\ [](out.kind \in DOMAIN Rejections
             => /\ conv[out.to] = Rejections[out.kind]
                /\ ENABLED ( /\ \E t \in TextInputs :
                                   \/ GetPrn(out.to, t, TRUE)
                                   \/ GetName(out.to, t)
                                   \/ GetPhone(out.to, t)
                             /\ out' = out
                             /\ conv' = conv
                             /\ user_data' = user_data ))

\* C24 witness: a phone was rejected; the dialogue is in GET_PHONE with the
\* identifier, the record and the name it had accepted.
C24_Witness ==
    \E u \in Users :
        /\ out = Reply(u, "phone_mismatch", NoData)
        /\ conv[u] = GET_PHONE
        /\ PrnAccepted(user_data[u])
        /\ NameAccepted(user_data[u])
        /\ "phone" \notin DOMAIN user_data[u]

\* the replies with which a dialogue ends: a submission, a failed create, "No,
\* Cancel", /cancel, a failed lookup
EndingReplies ==
    {"submitted", "submit_error", "application_cancelled", "operation_cancelled",
     "database_error"}

\* C25: every step that answers with an ending reply leaves the dialogue of
\* that requester at END; a step of a requester whose dialogue is at END is
\* either the entry, which opens a dialogue in GET_PRN, or changes nothing and
\* sends nothing; and at END no text, no press of a confirmation button and no
\* /cancel of that requester is taken by a callback.
C25_EndIsTerminal ==
    /\ [][ /\ out'.kind \in EndingReplies => conv'[out'.to] = END
           /\ \A u \in Users :
                 (conv[u] = END /\ out'.to = u)
                 => \/ /\ conv'[u] = GET_PRN
                       /\ out' = Reply(u, "ask_prn", NoData)
                       /\ UNCHANGED <<apps, pushed, origin>>
                    \/ /\ out'.kind = "none"
                       /\ UNCHANGED <<conv, user_data, apps, pushed, creates, origin>> ]_vars
    /\ [](\A u \in Users :
             conv[u] = END
             => /\ \A ev \in Events \ {"start_bonafide_flow"} : ENABLED Unhandled(u, ev)
                /\ ~ENABLED (\E t \in TextInputs, ok \in BOOLEAN :
                                \/ GetPrn(u, t, ok)
                                \/ GetName(u, t)
                                \/ GetPhone(u, t)
                                \/ Cancel(u)
                                \/ \E d \in {"confirm_yes", "confirm_no"}, date \in Dates :
                                      ConfirmSubmission(u, d, date, ok, ok)))

\* C25 witness: a requester whose dialogue ended with a submission sent a text
\* or pressed a button afterwards; nothing answered and one application is
\* stored.
C25_Witness ==
    \E u \in Users :
        /\ conv[u] = END
        /\ out = Reply(u, "none", NoData)
        /\ creates[u] = 1
        /\ origin = {1}
        /\ DOMAIN apps = {1}
        /\ apps[1]["prn"] = user_data[u]["prn"]

\* the keys of user_data an application is built from
ApplicationFields == {"prn", "student_data", "name", "phone"}

\* C26: the end of a dialogue leaves user_data as it is; yet whenever a
\* dialogue stands at the confirmation, each of prn, student_data, name and
\* phone in user_data is the value a callback accepted in this dialogue, and
\* the record a submission writes carries exactly those values, the batch being
\* that of the record looked up in this dialogue.
C26_FieldsOfThisDialogue ==
    /\ [][ /\ out'.kind \in EndingReplies => user_data' = user_data
           /\ \A u \in Users :
                 (out'.to = u /\ out'.kind = "submitted")
                 => /\ DOMAIN typed[u] = ApplicationFields
                    /\ apps'[pushed']["prn"] = typed[u]["prn"]
                    /\ apps'[pushed']["name"] = typed[u]["name"]
                    /\ apps'[pushed']["phone"] = typed[u]["phone"]
                    /\ apps'[pushed']["batch"] = typed[u]["student_data"].batch ]_vars
    /\ [](\A u \in Users :
             conv[u] = CONFIRM
             => /\ DOMAIN typed[u] = ApplicationFields
                /\ \A k \in ApplicationFields : user_data[u][k] = typed[u][k])

\* C26 witness: one requester submitted John's application, and in a second
\* dialogue, entered with John's fields still in user_data, Jane's: the second
\* record carries Jane's identifier, name, phone and batch.
C26_Witness ==
    \E u \in Users :
        /\ \A v \in Users \ {u} : user_data[v] = NoData
        /\ sessions = 2
        /\ out = Reply(u, "submitted", NoData)
        /\ origin = {1, 2}
        /\ apps[1]["prn"] = PrnJohn
        /\ apps[2]["prn"] = PrnJane
        /\ apps[2]["name"] = <<"j","a","n","e"," ","d","o","e">>
        /\ apps[2]["phone"] = PhoneJane
        /\ apps[2]["batch"] = Students[PrnJane].batch

====
